---- MODULE Spec2Model ----
(***************************************************************************)
(* Borealia Government Bot: the election lifecycle (open_election,         *)
(* nominate, the two voting dropdowns, close_election) and the election    *)
(* scheduler of main.py, as a state machine over the SQLite tables.        *)
(*                                                                         *)
(* Execution model.  Every handler and the scheduler run as coroutines of  *)
(* one asyncio event loop and all sqlite3 calls are synchronous, so the    *)
(* code between two `await`s is one atomic step.  An action below is such  *)
(* a block.  The scheduler awaits `elections_channel.send` in the middle   *)
(* of its loop body, before its UPDATE, so it is modelled in blocks that   *)
(* other handlers interleave with.                                         *)
(*                                                                         *)
(* Tables.  The statements of the handlers use the elections columns       *)
(* status, start_at, nominee_message_id, vote_message_id (open_election,   *)
(* close_election, main) and is_closed (nominate), and the votes column    *)
(* candidate_id; the primary keys are those db.py declares.  A column an   *)
(* INSERT does not name takes its default: NULL, and 0 for is_closed.      *)
(***************************************************************************)
EXTENDS Integers, Sequences, FiniteSets, TLC

(* ------------------------------ bounds -------------------------------- *)

\* The clock runs from 0 to MaxTime.
MaxTime == 1
\* How many /open_election commands are accepted in one behaviour.
MaxSchedules == 2
\* How many motions are created in one behaviour.
MaxMotions == 1
\* How many voters have voted when an election is tallied on its own.
MaxVoters == 3
\* How many motions are created when the motion commands run on their own.
MaxCreates == 3

(* --------------------------- the universe ----------------------------- *)

Guilds == {1, 2}
Positions == {"PM", "MP"}
Keys == Guilds \X Positions

\* User 1 is a Discord administrator, users 2 and 3 hold the voter role,
\* user 4 holds no role, users 5 and 6 hold the parliament role.
Users == {1, 2, 3, 4, 5, 6}
\* Who is in which guild.  Either the bot serves one guild, with two voters,
\* or two guilds: one with a single voter, one with nobody who votes.
Memberships ==
    { [g \in Guilds |-> IF g = 1 THEN {1, 2, 3} ELSE {}],
      [g \in Guilds |-> IF g = 1 THEN {1, 2} ELSE {1, 4}],
      [g \in Guilds |-> IF g = 1 THEN {1, 5, 6} ELSE {}],
      [g \in Guilds |-> IF g = 1 THEN {1} ELSE {}] }
\* What the guilds use the bot for: one guild with two voters and one
\* position; two guilds; one guild with one voter and two positions; one
\* guild whose parliament votes on motions and holds no election; one guild
\* whose administrator alone runs both the election and the motion commands.
Scenes ==
    { [members |-> [g \in Guilds |-> IF g = 1 THEN {1, 2, 3} ELSE {}],
       positions |-> {"PM"}, motions |-> FALSE],
      [members |-> [g \in Guilds |-> IF g = 1 THEN {1, 2} ELSE {1, 4}],
       positions |-> {"PM"}, motions |-> FALSE],
      [members |-> [g \in Guilds |-> IF g = 1 THEN {1, 2} ELSE {}],
       positions |-> {"PM", "MP"}, motions |-> FALSE],
      [members |-> [g \in Guilds |-> IF g = 1 THEN {1, 5, 6} ELSE {}],
       positions |-> {}, motions |-> TRUE],
      [members |-> [g \in Guilds |-> IF g = 1 THEN {1} ELSE {}],
       positions |-> {"PM"}, motions |-> TRUE] }
\* The users who run /nominate, and the ballot names each of them types.
Nominators == {2, 3}
NamesOf(u) == IF u = 2 THEN {"Ann", "Zed"} ELSE {"Bob"}
\* The instants /open_election is given: the last one is never reached.
StartTimes == 1..(MaxTime + 1)
\* The channels the server deletes.
Deletable == {<<2, "elections_channel">>, <<2, "nominees_channel">>}

\* A NULL start_at (a row made by ensure_election_row).
NullStartAt == -1

\* The motion numbers the commands are given: the last one is never created.
MotionIds == 1..(MaxMotions + 1)
\* duration_minutes of /motion_open.
Durations == {1}
Choices == {"yes", "no", "abstain"}

VARIABLES
    members,          \* guild_id -> the users in the guild (fixed from the start)
    positions,        \* the positions the guilds hold elections for (fixed)
    motionsOn,        \* the guilds use the motion commands (fixed)
    motions,          \* <<guild_id, motion_id>> -> the motion row
    motion_votes,     \* rows [key, voter_id, choice], in the order of their INSERT
    rollcall,         \* <<guild_id, motion_id>> -> the lists the roll-call message shows
    opening,          \* the motions whose /motion_open awaits channel.send
    casting,          \* <<guild_id, motion_id, voter_id>>: casts that await fetch_message
    lastOpen,         \* the /open_election the last step accepted, if it was one
    guild_settings,   \* guild_id -> the guild's row, for the configured guilds
    elections,        \* <<guild_id, position>> -> the election row
    nominations,      \* rows [key, user_id, display_name]
    votes,            \* rows [key, voter_id, candidate_id]
    voteMsgs,         \* key -> the voting messages the scheduler posted, in order
    panels,           \* the election panels /nominate posted: [key, cands]
    now,              \* the clock (UTC)
    schedRunning,     \* election_scheduler.is_running()
    schedPc,          \* "idle", or "sending": awaiting elections_channel.send
    schedNow,         \* now_utc of the sweep in progress
    schedQueue,       \* rows of `scheduled` the loop has not reached yet
    schedCur,         \* the row being promoted, with its frozen candidates
    nSchedules,       \* accepted /open_election commands so far
    \* What an observer of the sweeps has seen (no code reads these).
    sweepPromoted,    \* the keys the last sweep has set to VOTING
    sweepPassed,      \* the rows that sweep passed over without a send
    quietClean,       \* nothing else has run since the sweep in progress began
    justSwept         \* a sweep has just run to its end with nothing else in between

sceneVars == <<members, positions, motionsOn>>
dbVars == <<guild_settings, elections, nominations, votes>>
motionVars == <<motions, motion_votes, rollcall, opening, casting>>
msgVars == <<voteMsgs, panels>>
schedVars == <<schedRunning, schedPc, schedNow, schedQueue, schedCur>>
obsVars == <<sweepPromoted, sweepPassed, quietClean, justSwept>>
vars == <<sceneVars, dbVars, motionVars, msgVars, now, schedVars, nSchedules, obsVars, lastOpen>>

(* ------------------------------ helpers ------------------------------- *)

\* fetchall() returns the rows in an order the query does not fix.
Orders(S) ==
    {q \in [1..Cardinality(S) -> S] : \A i, j \in 1..Cardinality(S) : q[i] = q[j] => i = j}

Put(f, k, v) == [x \in (DOMAIN f) \cup {k} |-> IF x = k THEN v ELSE f[x]]

HasRow(k) == k \in DOMAIN elections

\* get_settings: the row, or None.
Configured(g) == g \in DOMAIN guild_settings

\* guild.get_channel(settings[...]) finds a text channel.
ElectionsChannelOk(g) == Configured(g) /\ guild_settings[g].elections_channel = "ok"
NomineesChannelOk(g) == Configured(g) /\ guild_settings[g].nominees_channel = "ok"

Members(g) == members[g]

\* is_admin: a Discord administrator (the admin role is held by nobody else here).
is_admin(u, g) == u \in Members(g) /\ u = 1

\* has_parliament_role(member, settings).
has_parliament_role(u, g) == Configured(g) /\ u \in Members(g) /\ u \in {5, 6}

ParliamentChannelOk(g) == Configured(g) /\ guild_settings[g].parliament_channel = "ok"

\* has_voter_role(member, settings).
has_voter_role(u, g) == Configured(g) /\ u \in Members(g) /\ u \in {2, 3}

NomineesOf(k) == {n.user_id : n \in {x \in nominations : x.key = k}}

NoCur == [key |-> <<0, "">>, cands |-> {}]

NoOpen == [key |-> <<0, "">>, clear |-> FALSE]

(* ------------------------------- Init --------------------------------- *)

Init ==
    /\ \E s \in Scenes :
          /\ members = s.members
          /\ positions = s.positions
          /\ motionsOn = s.motions
    /\ motions = <<>>
    /\ motion_votes = <<>>
    /\ rollcall = <<>>
    /\ opening = {}
    /\ casting = {}
    /\ lastOpen = NoOpen
    /\ guild_settings = <<>>
    /\ elections = <<>>
    /\ nominations = {}
    /\ votes = {}
    /\ voteMsgs = [k \in Keys |-> <<>>]
    /\ panels = {}
    /\ now = 0
    /\ schedRunning = FALSE
    /\ schedPc = "idle"
    /\ schedNow = 0
    /\ schedQueue = <<>>
    /\ schedCur = NoCur
    /\ nSchedules = 0
    /\ sweepPromoted = {}
    /\ sweepPassed = {}
    /\ quietClean = FALSE
    /\ justSwept = FALSE

(* ------------------------- /setup and the server ---------------------- *)

\* setup.py 71-94: an admin saves the channels and roles; the channels given
\* are channels of the guild.
Setup(g, actor) ==
    /\ actor \in Members(g)
    /\ guild_settings' =
          IF is_admin(actor, g)
          THEN Put(guild_settings, g, [elections_channel |-> "ok", nominees_channel |-> "ok",
                                       parliament_channel |-> "ok"])
          ELSE guild_settings
    /\ UNCHANGED <<elections, nominations, votes, msgVars, now, schedVars, nSchedules, motionVars>>

\* The server deletes a configured channel: get_channel returns None from now on.
ChannelDeleted(g, which) ==
    /\ Configured(g)
    /\ guild_settings[g][which] = "ok"
    /\ guild_settings' = [guild_settings EXCEPT ![g][which] = "gone"]
    /\ UNCHANGED <<elections, nominations, votes, msgVars, now, schedVars, nSchedules, motionVars>>

Tick ==
    /\ now < MaxTime
    /\ now' = now + 1
    /\ UNCHANGED <<dbVars, msgVars, schedVars, nSchedules, motionVars>>

(* --------------------------- votes table ------------------------------ *)

VoteOf(k, voter) == {r \in votes : r.key = k /\ r.voter_id = voter}

\* The INSERT on a votes table without its primary key.
InsertVoteNoKey(k, voter, cand) ==
    votes \cup {[key |-> k, voter_id |-> voter, candidate_id |-> cand]}

\* INSERT OR REPLACE in place of INSERT.
InsertVoteReplace(k, voter, cand) ==
    {r \in votes : ~(r.key = k /\ r.voter_id = voter)}
        \cup {[key |-> k, voter_id |-> voter, candidate_id |-> cand]}

\* INSERT INTO votes ...: PRIMARY KEY (guild_id, position, voter_id) makes a
\* second row for the key an IntegrityError, and the table is left as it was.
InsertVote(k, voter, cand) ==
    IF VoteOf(k, voter) = {}
    THEN votes \cup {[key |-> k, voter_id |-> voter, candidate_id |-> cand]}
    ELSE votes

\* The DELETE without its condition on the position.
DeleteVotesOfGuild(k) == {r \in votes : r.key[1] # k[1]}

\* The DELETE left out.
DeleteNoVotes(k) == votes

\* DELETE FROM votes WHERE guild_id = ? AND position = ?
DeleteVotes(k) == {r \in votes : r.key # k}

(* --------------------------- /open_election --------------------------- *)

\* /open_election without its test of is_admin.
OpenElectionResultNoAdmin(g, actor) ==
    IF ~Configured(g) THEN "NotConfigured"
    ELSE IF ~NomineesChannelOk(g) THEN "NomineesChannelNotFound"
    ELSE "Scheduled"

OpenElectionResult(g, actor) ==
    IF ~Configured(g) THEN "NotConfigured"
    ELSE IF ~is_admin(actor, g) THEN "Unauthorized"
    ELSE IF ~NomineesChannelOk(g) THEN "NomineesChannelNotFound"
    ELSE "Scheduled"

\* The upsert without `vote_message_id = NULL` in its DO UPDATE SET.
UpsertScheduledKeepBallot(k, start) ==
    IF HasRow(k)
    THEN [elections EXCEPT ![k].status = "SCHEDULED", ![k].start_at = start]
    ELSE Put(elections, k, [status |-> "SCHEDULED", start_at |-> start, is_closed |-> 0,
                            nominee_message_id |-> 0, vote_message_id |-> 0])

\* INSERT ... VALUES (?, ?, 'SCHEDULED', ?, NULL, NULL, ?, ?)
\* ON CONFLICT(guild_id, position) DO UPDATE SET status, start_at, vote_message_id
UpsertScheduled(k, start) ==
    IF HasRow(k)
    THEN [elections EXCEPT ![k].status = "SCHEDULED",
                           ![k].start_at = start,
                           ![k].vote_message_id = 0]
    ELSE Put(elections, k, [status |-> "SCHEDULED", start_at |-> start, is_closed |-> 0,
                            nominee_message_id |-> 0, vote_message_id |-> 0])

\* The nominees message: edited when the row names one, else sent and its id
\* stored.  A send or edit that raises leaves the row as committed.
StoreNomineeMessage(e, k, pubOk) ==
    IF pubOk /\ e[k].nominee_message_id = 0
    THEN [e EXCEPT ![k].nominee_message_id = 1]
    ELSE e

OpenElection(g, p, actor, start, clear_nominees, pubOk) ==
    LET k == <<g, p>> IN
    /\ actor \in Members(g)
    /\ IF OpenElectionResult(g, actor) = "Scheduled"
       THEN /\ nSchedules < MaxSchedules
            /\ nSchedules' = nSchedules + 1
            /\ elections' = StoreNomineeMessage(UpsertScheduled(k, start), k, pubOk)
            /\ votes' = DeleteVotes(k)
            /\ nominations' = IF clear_nominees
                              THEN {n \in nominations : n.key # k}
                              ELSE nominations
       ELSE UNCHANGED <<elections, votes, nominations, nSchedules>>
    /\ UNCHANGED <<guild_settings, msgVars, now, schedVars, motionVars>>

(* ----------------------------- /nominate ------------------------------ *)

\* ensure_election_row: INSERT OR IGNORE INTO elections (guild_id, position, is_closed)
ensure_election_row(k) ==
    IF HasRow(k) THEN elections
    ELSE Put(elections, k, [status |-> "NULL", start_at |-> NullStartAt, is_closed |-> 0,
                            nominee_message_id |-> 0, vote_message_id |-> 0])

\* election_is_closed, on the table e.
election_is_closed(e, k) == k \in DOMAIN e /\ e[k].is_closed = 1

NominateResult(g, p, user) ==
    LET k == <<g, p>> IN
    IF ~Configured(g) THEN "NotConfigured"
    ELSE IF election_is_closed(ensure_election_row(k), k) THEN "ElectionClosed"
    ELSE IF \E n \in nominations : n.key = k /\ n.user_id = user THEN "AlreadyNominated"
    ELSE "Nominated"

\* add_nomination, then the election panel with a dropdown of all nominees,
\* sent to the elections channel when get_channel finds it.
Nominate(g, p, user, name) ==
    LET k == <<g, p>>
        res == NominateResult(g, p, user)
    IN
    /\ user \in Members(g)
    /\ elections' = IF res = "NotConfigured" THEN elections ELSE ensure_election_row(k)
    /\ nominations' = IF res = "Nominated"
                      THEN nominations \cup {[key |-> k, user_id |-> user, display_name |-> name]}
                      ELSE nominations
    /\ panels' = IF res = "Nominated" /\ ElectionsChannelOk(g)
                 THEN panels \cup {[key |-> k, cands |-> NomineesOf(k) \cup {user}]}
                 ELSE panels
    /\ UNCHANGED <<guild_settings, votes, voteMsgs, now, schedVars, nSchedules, motionVars>>

(* ------------------------- the two dropdowns -------------------------- *)

\* VoteSelect.callback without its test of has_voter_role.
VoteSelectResultNoRole(k, voter) ==
    IF ~HasRow(k) \/ elections[k].status # "VOTING" THEN "VotingNotOpen"
    ELSE IF VoteOf(k, voter) # {} THEN "AlreadyVoted"
    ELSE "Recorded"

\* main.py VoteSelect.callback
VoteSelectResult(k, voter) ==
    IF ~has_voter_role(voter, k[1]) THEN "NoVoterRole"
    ELSE IF ~HasRow(k) \/ elections[k].status # "VOTING" THEN "VotingNotOpen"
    ELSE IF VoteOf(k, voter) # {} THEN "AlreadyVoted"
    ELSE "Recorded"

VoteSelectCallback(k, i, voter, cand) ==
    /\ i \in 1..Len(voteMsgs[k])
    /\ voteMsgs[k][i].live
    /\ cand \in voteMsgs[k][i].cands
    /\ voter \in Members(k[1])
    /\ votes' = IF VoteSelectResult(k, voter) = "Recorded"
                THEN InsertVote(k, voter, cand)
                ELSE votes
    /\ UNCHANGED <<guild_settings, elections, nominations, msgVars, now, schedVars, nSchedules, motionVars>>

\* nominate.py record_vote
record_vote(k, voter) ==
    IF election_is_closed(elections, k) THEN "closed"
    ELSE IF VoteOf(k, voter) # {} THEN "already"
    ELSE "ok"

\* nominate.py VoteDropdown.callback
VoteDropdownResult(k, voter) ==
    IF ~has_voter_role(voter, k[1]) THEN "NoVoterRole" ELSE record_vote(k, voter)

VoteDropdownCallback(panel, voter, cand) ==
    LET k == panel.key IN
    /\ panel \in panels
    /\ cand \in panel.cands
    /\ voter \in Members(k[1])
    /\ votes' = IF VoteDropdownResult(k, voter) \in {"ok", "already"}
                THEN InsertVote(k, voter, cand)
                ELSE votes
    /\ UNCHANGED <<guild_settings, elections, nominations, msgVars, now, schedVars, nSchedules, motionVars>>

(* --------------------------- /close_election -------------------------- *)

\* /close_election without its test for a CLOSED election.
CloseResultNoClosedTest(g, p, actor) ==
    IF ~Configured(g) THEN "NotConfigured"
    ELSE IF ~is_admin(actor, g) THEN "Unauthorized"
    ELSE IF ~HasRow(<<g, p>>) THEN "NotFound"
    ELSE "Closed"

CloseResult(g, p, actor) ==
    LET k == <<g, p>> IN
    IF ~Configured(g) THEN "NotConfigured"
    ELSE IF ~is_admin(actor, g) THEN "Unauthorized"
    ELSE IF ~HasRow(k) THEN "NotFound"
    ELSE IF elections[k].status = "CLOSED" THEN "AlreadyClosed"
    ELSE "Closed"

\* SELECT candidate_id, COUNT(*) as votes FROM votes WHERE ... GROUP BY candidate_id
VoteGroups(k) ==
    {[candidate_id |-> c, votes |-> Cardinality({r \in votes : r.key = k /\ r.candidate_id = c})] :
        c \in {r.candidate_id : r \in {x \in votes : x.key = k}}}

\* The same rows in ascending order of their counts.
VoteRowsAscending(k) ==
    {q \in Orders(VoteGroups(k)) : \A i, j \in 1..Len(q) : i < j => q[i].votes <= q[j].votes}

\* ... ORDER BY votes DESC: rows of equal counts come in any order.
VoteRows(k) ==
    {q \in Orders(VoteGroups(k)) : \A i, j \in 1..Len(q) : i < j => q[i].votes >= q[j].votes}

RECURSIVE SumVotes(_)
SumVotes(q) == IF q = <<>> THEN 0 ELSE Head(q).votes + SumVotes(Tail(q))

\* The loop over vote_rows and the test for a tie: what the DM reports.
\* winner_id 0 stands for None.
ElectionResult(q) ==
    [total_votes |-> SumVotes(q),
     winner_id |-> IF q = <<>> THEN 0 ELSE q[1].candidate_id,
     winner_votes |-> IF q = <<>> THEN 0 ELSE q[1].votes,
     is_tie |-> Len(q) > 1 /\ q[2].votes = q[1].votes]

\* What /close_election can answer and DM: the rows come in one of their orders.
CloseReplies(g, p, actor) ==
    IF CloseResult(g, p, actor) = "Closed"
    THEN {[answer |-> "Closed", result |-> ElectionResult(q)] : q \in VoteRows(<<g, p>>)}
    ELSE {[answer |-> CloseResult(g, p, actor)]}

\* msg.edit(embed=closed_embed, view=None) on the message vote_message_id names;
\* a fetch or edit that raises is ignored.
DisableVoteMessage(k, editOk) ==
    LET m == elections[k].vote_message_id IN
    IF ElectionsChannelOk(k[1]) /\ m # 0 /\ editOk
    THEN [voteMsgs EXCEPT ![k][m].live = FALSE]
    ELSE voteMsgs

\* /close_election with an await between its tally and its UPDATE: a vote
\* cast in between is stored when the status is written.
CloseElectionAwaiting(g, p, actor, editOk) ==
    LET k == <<g, p>> IN
    /\ actor \in Members(g)
    /\ IF CloseResult(g, p, actor) = "Closed"
       THEN /\ elections' = [elections EXCEPT ![k].status = "CLOSED"]
            /\ voteMsgs' = DisableVoteMessage(k, editOk)
            /\ \E v \in Members(g), c \in Nominators :
                  votes' = IF VoteSelectResult(k, v) = "Recorded"
                           THEN InsertVote(k, v, c)
                           ELSE votes
       ELSE UNCHANGED <<elections, voteMsgs, votes>>
    /\ UNCHANGED <<guild_settings, nominations, panels, now, schedVars, nSchedules, motionVars>>

\* /close_election that makes the row it does not find, as /nominate does.
CloseElectionEnsuring(g, p, actor, editOk) ==
    LET k == <<g, p>> IN
    /\ actor \in Members(g)
    /\ IF CloseResult(g, p, actor) = "Closed"
       THEN /\ elections' = [elections EXCEPT ![k].status = "CLOSED"]
            /\ voteMsgs' = DisableVoteMessage(k, editOk)
       ELSE /\ elections' = IF CloseResult(g, p, actor) = "NotFound"
                            THEN ensure_election_row(k)
                            ELSE elections
            /\ UNCHANGED voteMsgs
    /\ UNCHANGED <<guild_settings, nominations, votes, panels, now, schedVars, nSchedules, motionVars>>

CloseElection(g, p, actor, editOk) ==
    LET k == <<g, p>> IN
    /\ actor \in Members(g)
    /\ IF CloseResult(g, p, actor) = "Closed"
       THEN /\ elections' = [elections EXCEPT ![k].status = "CLOSED"]
            /\ voteMsgs' = DisableVoteMessage(k, editOk)
       ELSE UNCHANGED <<elections, voteMsgs>>
    /\ UNCHANGED <<guild_settings, nominations, votes, panels, now, schedVars, nSchedules, motionVars>>

(* ----------------------- what the handlers send ------------------------ *)

\* The vote tables that differ from the stored one in nothing but the
\* candidates the voters chose.
Relabelings ==
    {{[key |-> r.key, voter_id |-> r.voter_id, candidate_id |-> f[r]] : r \in votes} :
        f \in [votes -> Nominators]}

\* The GROUP BY query of /close_election on the vote table V.
VoteGroupsIn(V, k) ==
    {[candidate_id |-> c, votes |-> Cardinality({r \in V : r.key = k /\ r.candidate_id = c})] :
        c \in {r.candidate_id : r \in {x \in V : x.key = k}}}

VoteRowsIn(V, k) ==
    {q \in Orders(VoteGroupsIn(V, k)) : \A i, j \in 1..Len(q) : i < j => q[i].votes >= q[j].votes}

\* A message a handler sends: where it goes, to whom if it is not a channel
\* (0 stands for everybody who reads the channel), and what it holds.
Message(surface, to, kind, nominees, counts, chosen) ==
    [surface |-> surface, to |-> to, kind |-> kind,
     nominees |-> nominees, counts |-> counts, chosen |-> chosen]

\* The results embed sent to the elections channel.
ResultsMessageBroadcast(V, g, p, actor) ==
    {Message("elections_channel", 0, "ElectionResults", NomineesOf(<<g, p>>),
             {ElectionResult(q)}, 0) : q \in VoteRowsIn(V, <<g, p>>)}

\* interaction.user.send(embed=dm_embed): the results go to the admin who
\* closed the election.
ResultsMessage(V, g, p, actor) ==
    {Message("dm", actor, "ElectionResults", NomineesOf(<<g, p>>),
             {ElectionResult(q)}, 0) : q \in VoteRowsIn(V, <<g, p>>)}

\* Every message /close_election can send when the vote table is V: the two
\* closed notices, the results and the answer to the command.
ClosePublished(V, g, p, actor, editOk) ==
    LET k == <<g, p>> IN
    IF CloseResult(g, p, actor) # "Closed"
    THEN {Message("ephemeral", actor, CloseResult(g, p, actor), {}, {}, 0)}
    ELSE (IF ElectionsChannelOk(g) /\ elections[k].vote_message_id # 0 /\ editOk
          THEN {Message("elections_channel", 0, "ElectionClosed", {}, {}, 0)}
          ELSE {})
         \cup (IF NomineesChannelOk(g) /\ elections[k].nominee_message_id # 0 /\ editOk
               THEN {Message("nominees_channel", 0, "NominationsClosed", NomineesOf(k), {}, 0)}
               ELSE {})
         \cup ResultsMessage(V, g, p, actor)
         \cup {Message("ephemeral", actor, "Closed", {}, {}, 0)}

\* What VoteSelect.callback sends: one answer, to the member who chose.
VoteSelectPublished(k, voter, cand) ==
    IF VoteSelectResult(k, voter) = "Recorded"
    THEN {Message("ephemeral", voter, "Recorded", {}, {}, cand)}
    ELSE {Message("ephemeral", voter, VoteSelectResult(k, voter), {}, {}, 0)}

\* The messages of M that everybody who reads a channel sees.
PublicPart(M) == {m \in M : m.surface \notin {"dm", "ephemeral"}}

(* ------------------------------ motions ------------------------------- *)

HasMotion(g, m) == <<g, m>> \in DOMAIN motions

\* The number of the first motion: a table that says nothing else starts at 1.
FirstMotionId == 1

\* A table whose INSERT gives every row the number of the first.
NextMotionIdSame == FirstMotionId

\* cur.lastrowid of the INSERT: motion rows are numbered in the order of
\* their creation and none is ever deleted.
NextMotionId == Cardinality(DOMAIN motions) + FirstMotionId

\* /motion_create, while fewer than cap motions exist
MotionCreateUpTo(g, actor, cap) ==
    /\ motionsOn
    /\ actor \in Members(g)
    /\ motions' =
          IF is_admin(actor, g) /\ NextMotionId <= cap
          THEN Put(motions, <<g, NextMotionId>>,
                   [status |-> "DRAFT", closes_at |-> NullStartAt, message_id |-> 0])
          ELSE motions
    /\ is_admin(actor, g) => NextMotionId <= cap
    /\ UNCHANGED <<dbVars, motion_votes, rollcall, opening, casting, msgVars, now, schedVars, nSchedules>>

MotionCreate(g, actor) == MotionCreateUpTo(g, actor, MaxMotions)

\* /motion_open without its test for DRAFT.
MotionOpenResultAnyStatus(g, m, actor) ==
    IF ~is_admin(actor, g) THEN "AdminsOnly"
    ELSE IF ~Configured(g) THEN "ParliamentChannelNotSet"
    ELSE IF ~HasMotion(g, m) THEN "NotFound"
    ELSE "Opened"

MotionOpenResult(g, m, actor) ==
    IF ~is_admin(actor, g) THEN "AdminsOnly"
    ELSE IF ~Configured(g) THEN "ParliamentChannelNotSet"
    ELSE IF ~HasMotion(g, m) THEN "NotFound"
    ELSE IF motions[<<g, m>>].status # "DRAFT" THEN "NotDraft"
    ELSE "Opened"

\* /motion_open up to its `await channel.send`: the status is written and
\* committed, then the parliament channel is looked up; the command ends
\* there if it is no text channel.
MotionOpen(g, m, actor, duration) ==
    /\ motionsOn
    /\ actor \in Members(g)
    /\ IF MotionOpenResult(g, m, actor) = "Opened"
       THEN /\ motions' = [motions EXCEPT ![<<g, m>>] =
                              [status |-> "VOTING", closes_at |-> now + duration,
                               message_id |-> 0]]
            /\ opening' = IF ParliamentChannelOk(g) THEN opening \cup {<<g, m>>} ELSE opening
       ELSE UNCHANGED <<motions, opening>>
    /\ UNCHANGED <<dbVars, motion_votes, rollcall, casting, msgVars, now, schedVars, nSchedules>>

\* The lists of an embed that names no voter.
EmptyRoll == [yes |-> <<>>, no |-> <<>>, abstain |-> <<>>]

MotionVoteOf(g, m, voter) ==
    {i \in 1..Len(motion_votes) :
        motion_votes[i].key = <<g, m>> /\ motion_votes[i].voter_id = voter}

\* The INSERT without the unique key of (guild_id, motion_id, voter_id).
InsertMotionVoteNoKey(g, m, voter, choice) ==
    Append(motion_votes, [key |-> <<g, m>>, voter_id |-> voter, choice |-> choice])

\* INSERT INTO motion_votes ...: a second row of the voter for the motion
\* raises and the table is left as it was.
InsertMotionVote(g, m, voter, choice) ==
    IF MotionVoteOf(g, m, voter) = {}
    THEN Append(motion_votes, [key |-> <<g, m>>, voter_id |-> voter, choice |-> choice])
    ELSE motion_votes

\* MotionVoteView.cast without its test of the status.
CastResultAnyStatus(g, m, voter) ==
    IF ~Configured(g) THEN "NotConfigured"
    ELSE IF ~has_parliament_role(voter, g) THEN "NotParliament"
    ELSE IF MotionVoteOf(g, m, voter) # {} THEN "AlreadyVoted"
    ELSE "Recorded"

\* MotionVoteView.cast, up to its answer or its INSERT.
CastResult(g, m, voter) ==
    IF ~Configured(g) THEN "NotConfigured"
    ELSE IF ~has_parliament_role(voter, g) THEN "NotParliament"
    ELSE IF ~HasMotion(g, m) \/ motions[<<g, m>>].status # "VOTING" THEN "VotingNotOpen"
    ELSE IF MotionVoteOf(g, m, voter) # {} THEN "AlreadyVoted"
    ELSE "Recorded"

\* A button of the view /motion_vote sends: the view names any motion number.
\* The step runs up to the `await channel.fetch_message` of
\* update_rollcall_message, which returns at once when the motion has no
\* roll-call message to fetch.
Cast(g, m, voter, choice) ==
    /\ motionsOn
    /\ voter \in Members(g)
    /\ motion_votes' = IF CastResult(g, m, voter) \in {"AlreadyVoted", "Recorded"}
                       THEN InsertMotionVote(g, m, voter, choice)
                       ELSE motion_votes
    /\ casting' = IF CastResult(g, m, voter) = "Recorded" /\ <<g, m>> \in DOMAIN rollcall
                  THEN casting \cup {<<g, m, voter>>}
                  ELSE casting
    /\ UNCHANGED <<dbVars, motions, rollcall, opening, msgVars, now, schedVars, nSchedules>>

MotionCloseResult(g, m, actor) ==
    IF ~is_admin(actor, g) THEN "AdminsOnly"
    ELSE IF ~HasMotion(g, m) THEN "NotFound"
    ELSE IF motions[<<g, m>>].status # "VOTING" THEN "NotVoting"
    ELSE "Closed"

\* The same voters under ORDER BY cast_at DESC.
VotersForNewestFirst(g, m, c) ==
    LET rows == SelectSeq(motion_votes, LAMBDA r : r.key = <<g, m>> /\ r.choice = c)
    IN [i \in 1..Len(rows) |-> rows[Len(rows) + 1 - i].voter_id]

\* The voters of the motion who chose c, in the order of the rows.
VotersFor(g, m, c) ==
    LET rows == SelectSeq(motion_votes, LAMBDA r : r.key = <<g, m>> /\ r.choice = c)
    IN [i \in 1..Len(rows) |-> rows[i].voter_id]

\* What a function that ends without a return statement returns.
None == [result |-> "None"]

\* tally_motion: the return statement stands in the else branch.
tally_motion(g, m) ==
    LET yes == VotersFor(g, m, "yes")
        no == VotersFor(g, m, "no")
        abstain == VotersFor(g, m, "abstain")
    IN IF Len(yes) > Len(no) THEN None
       ELSE IF Len(no) > Len(yes) THEN None
       ELSE [yes |-> yes, no |-> no, abstain |-> abstain, result |-> "TIED"]

\* What the roll-call message shows of a tally.
RollOf(t) == [yes |-> t.yes, no |-> t.no, abstain |-> t.abstain]

\* update_rollcall_message from the return of fetch_message on: the tally is
\* read and the message is edited; len(t['yes']) raises when the tally is
\* None, and the message stays as it was.
UpdateRollcall(g, m) ==
    IF <<g, m>> \in DOMAIN rollcall /\ tally_motion(g, m) # None
    THEN [rollcall EXCEPT ![<<g, m>>] = RollOf(tally_motion(g, m))]
    ELSE rollcall

\* channel.send returns: the embed, which names no voter, is in the channel;
\* its id is stored and update_rollcall_message fills in the tally.
MotionOpenSent(g, m) ==
    /\ <<g, m>> \in opening
    /\ opening' = opening \ {<<g, m>>}
    /\ motions' = [motions EXCEPT ![<<g, m>>].message_id = 1]
    /\ rollcall' = IF tally_motion(g, m) # None
                   THEN Put(rollcall, <<g, m>>, RollOf(tally_motion(g, m)))
                   ELSE Put(rollcall, <<g, m>>, EmptyRoll)
    /\ UNCHANGED <<dbVars, motion_votes, casting, msgVars, now, schedVars, nSchedules>>

\* channel.send raises: the command ends and the row names no message.
MotionOpenSendFailed(g, m) ==
    /\ <<g, m>> \in opening
    /\ opening' = opening \ {<<g, m>>}
    /\ UNCHANGED <<dbVars, motions, motion_votes, rollcall, casting, msgVars, now, schedVars, nSchedules>>

\* fetch_message returns to a cast: the roll-call is rebuilt and edited, and
\* the voter is answered "Vote recorded" unless the rebuild raised.
CastPublished(g, m, voter) ==
    /\ <<g, m, voter>> \in casting
    /\ casting' = casting \ {<<g, m, voter>>}
    /\ rollcall' = UpdateRollcall(g, m)
    /\ UNCHANGED <<dbVars, motions, motion_votes, opening, msgVars, now, schedVars, nSchedules>>

\* /motion_close: the status is written, then the roll-call is rebuilt.
MotionClose(g, m, actor) ==
    /\ motionsOn
    /\ actor \in Members(g)
    /\ motions' = IF MotionCloseResult(g, m, actor) = "Closed"
                  THEN [motions EXCEPT ![<<g, m>>].status = "CLOSED"]
                  ELSE motions
    /\ rollcall' = IF MotionCloseResult(g, m, actor) = "Closed"
                   THEN UpdateRollcall(g, m)
                   ELSE rollcall
    /\ UNCHANGED <<dbVars, motion_votes, opening, casting, msgVars, now, schedVars, nSchedules>>

\* The server deletes the parliament channel of a guild that votes on
\* motions: its messages go with it and a send to it raises.
ParliamentChannelDeleted(g) ==
    /\ motionsOn
    /\ ParliamentChannelOk(g)
    /\ guild_settings' = [guild_settings EXCEPT ![g].parliament_channel = "gone"]
    /\ rollcall' = [key \in {x \in DOMAIN rollcall : x[1] # g} |-> rollcall[key]]
    /\ opening' = {key \in opening : key[1] # g}
    /\ UNCHANGED <<elections, nominations, votes, motions, motion_votes, casting, msgVars, now, schedVars, nSchedules>>

(* ------------------------- election_scheduler ------------------------- *)

\* The SELECT without its WHERE clause.
AllElectionRows ==
    {[key |-> k, start_at |-> elections[k].start_at] : k \in DOMAIN elections}

\* SELECT guild_id, position, start_at FROM elections WHERE status = 'SCHEDULED'
ScheduledRows ==
    {[key |-> k, start_at |-> elections[k].start_at] :
        k \in {x \in DOMAIN elections : elections[x].status = "SCHEDULED"}}

\* datetime.fromisoformat(str(start_at)) raises on a NULL start_at.
ParseOk(raw) == raw # NullStartAt

\* The loop body up to the nominee query: every other way out is `continue`.
Postable(r, tnow) ==
    /\ ParseOk(r.start_at)
    /\ r.start_at <= tnow
    /\ Configured(r.key[1])
    /\ ElectionsChannelOk(r.key[1])

\* The loop with `return` where the code has `continue`.
SkipToReturn(q, tnow) ==
    IF q = <<>> THEN <<>>
    ELSE IF Postable(Head(q), tnow) THEN q
    ELSE <<>>

\* The rows of the loop from its first row that reaches the send.
RECURSIVE SkipTo(_, _)
SkipTo(q, tnow) ==
    IF q = <<>> THEN <<>>
    ELSE IF Postable(Head(q), tnow) THEN q
    ELSE SkipTo(Tail(q), tnow)

\* The rows of q the loop passes before it stops at `rest`.
Passed(q, rest) == {q[i] : i \in 1..(Len(q) - Len(rest))}

\* Runs the for loop over q up to its next `await elections_channel.send`.
RunLoop(q, tnow) ==
    LET rest == SkipTo(q, tnow) IN
    IF rest = <<>>
    THEN /\ schedPc' = "idle"
         /\ schedNow' = 0
         /\ schedQueue' = <<>>
         /\ schedCur' = NoCur
    ELSE /\ schedPc' = "sending"
         /\ schedNow' = tnow
         /\ schedQueue' = Tail(rest)
         /\ schedCur' = [key |-> Head(rest).key, cands |-> NomineesOf(Head(rest).key)]

\* on_ready: start the loop unless it is running.
OnReady ==
    /\ ~schedRunning
    /\ schedRunning' = TRUE
    /\ UNCHANGED <<dbVars, msgVars, now, schedPc, schedNow, schedQueue, schedCur, nSchedules, motionVars>>

\* One iteration of the loop begins.
SchedulerTick ==
    /\ schedRunning
    /\ schedPc = "idle"
    /\ \E q \in Orders(ScheduledRows) :
          /\ RunLoop(q, now)
          /\ sweepPassed' = Passed(q, SkipTo(q, now))
    /\ sweepPromoted' = {}
    /\ quietClean' = (schedPc' = "sending")
    /\ justSwept' = (schedPc' = "idle")
    /\ lastOpen' = NoOpen
    /\ UNCHANGED <<sceneVars, dbVars, msgVars, now, schedRunning, nSchedules, motionVars>>

\* UPDATE elections SET status = 'VOTING', vote_message_id = ? WHERE guild_id = ? AND position = ?
UpdateVoting(k, msgId) ==
    IF HasRow(k)
    THEN [elections EXCEPT ![k].status = "VOTING", ![k].vote_message_id = msgId]
    ELSE elections

\* The send returns: the message is in the channel, the row is updated and
\* the loop goes on to its next send.
SchedulerSent ==
    LET k == schedCur.key IN
    /\ schedPc = "sending"
    /\ voteMsgs' = [voteMsgs EXCEPT ![k] = Append(@, [cands |-> schedCur.cands, live |-> TRUE])]
    /\ elections' = UpdateVoting(k, Len(voteMsgs[k]) + 1)
    /\ RunLoop(schedQueue, schedNow)
    /\ sweepPassed' = sweepPassed \cup Passed(schedQueue, SkipTo(schedQueue, schedNow))
    /\ sweepPromoted' = sweepPromoted \cup {k}
    /\ quietClean' = (quietClean /\ schedPc' = "sending")
    /\ justSwept' = (quietClean /\ schedPc' = "idle")
    /\ lastOpen' = NoOpen
    /\ UNCHANGED <<sceneVars, guild_settings, nominations, votes, panels, now, schedRunning, nSchedules, motionVars>>

\* The send raises: nothing in the loop body catches it.  tasks.loop retries
\* after a connection error and ends the task on any other exception.
SchedulerSendFailed ==
    /\ schedPc = "sending"
    /\ schedPc' = "idle"
    /\ schedNow' = 0
    /\ schedQueue' = <<>>
    /\ schedCur' = NoCur
    /\ schedRunning' \in BOOLEAN
    /\ quietClean' = FALSE
    /\ justSwept' = FALSE
    /\ lastOpen' = NoOpen
    /\ UNCHANGED <<sceneVars, dbVars, msgVars, now, nSchedules, sweepPromoted, sweepPassed, motionVars>>

(* ------------------------------- Next --------------------------------- *)

\* A step of anything but the scheduler: the observer starts anew, and
\* forgets a sweep that is over.
Observed ==
    /\ quietClean' = FALSE
    /\ justSwept' = FALSE
    /\ IF schedPc = "idle"
       THEN sweepPromoted' = {} /\ sweepPassed' = {}
       ELSE UNCHANGED <<sweepPromoted, sweepPassed>>
    /\ UNCHANGED sceneVars

\* /open_election, and what an observer of the command has seen of it.
ElectionOpened ==
    \E g \in Guilds, p \in positions, t \in StartTimes, c \in BOOLEAN :
       \E a \in Members(g) :
          /\ OpenElection(g, p, a, t, c, TRUE)
          /\ lastOpen' = IF nSchedules' = nSchedules
                          THEN NoOpen
                          ELSE [key |-> <<g, p>>, clear |-> c]

Others ==
    \/ \E g \in Guilds : \E a \in Members(g) : Setup(g, a)
    \/ \E d \in Deletable : ChannelDeleted(d[1], d[2])
    \/ Tick
    \/ \E g \in Guilds, p \in positions, u \in Nominators :
          \E n \in NamesOf(u) : Nominate(g, p, u, n)
    \/ \E k \in Guilds \X positions, i \in 1..MaxSchedules, c \in Nominators :
          \E v \in Members(k[1]) : VoteSelectCallback(k, i, v, c)
    \/ \E pn \in panels, c \in Nominators :
          \E v \in Members(pn.key[1]) : VoteDropdownCallback(pn, v, c)
    \/ \E g \in Guilds, p \in positions : \E a \in Members(g) : CloseElection(g, p, a, TRUE)
    \/ OnReady
    \/ \E g \in Guilds : \E a \in Members(g) : MotionCreate(g, a)
    \/ \E g \in Guilds, m \in MotionIds, d \in Durations :
          \E a \in Members(g) : MotionOpen(g, m, a, d)
    \/ \E g \in Guilds, m \in MotionIds, c \in Choices :
          \E v \in Members(g) : Cast(g, m, v, c)
    \/ \E g \in Guilds, m \in MotionIds : \E a \in Members(g) : MotionClose(g, m, a)
    \/ \E key \in opening : MotionOpenSent(key[1], key[2])
    \/ \E key \in opening : MotionOpenSendFailed(key[1], key[2])
    \/ \E c \in casting : CastPublished(c[1], c[2], c[3])
    \/ \E g \in Guilds : ParliamentChannelDeleted(g)

Handlers ==
    \/ ElectionOpened
    \/ Others /\ lastOpen' = NoOpen

Next ==
    \/ Handlers /\ Observed
    \/ SchedulerTick
    \/ SchedulerSent
    \/ SchedulerSendFailed

Spec == Init /\ [][Next]_vars

\* The scheduler runs when it can: tasks.loop fires every 30 seconds while the
\* task is running, and a send that is awaited returns or raises.
LiveSpec ==
    /\ Spec
    /\ WF_vars(SchedulerTick)
    /\ WF_vars(SchedulerSent \/ SchedulerSendFailed)

(* ------------------------------ the votes ----------------------------- *)

VotingOpen(k) == HasRow(k) /\ elections[k].status = "VOTING"

\* The candidates a member of the guild can pick for k right now.
Offered(k) ==
    UNION ({voteMsgs[k][i].cands : i \in {j \in 1..Len(voteMsgs[k]) : voteMsgs[k][j].live}}
           \cup {pn.cands : pn \in {x \in panels : x.key = k}})

\* C1: for every (guild, position, voter) there is at most one vote row in
\* every reachable state, and while the election is VOTING every further
\* submission of a voter who has a row is answered "already voted" by both
\* dropdowns, so of N interleaved submissions exactly one is recorded.
C1_OneVotePerVoter ==
    \A k \in Keys : \A v \in Users :
        /\ Cardinality(VoteOf(k, v)) <= 1
        /\ (VotingOpen(k) /\ has_voter_role(v, k[1]) /\ VoteOf(k, v) # {})
              => /\ VoteSelectResult(k, v) = "AlreadyVoted"
                 /\ VoteDropdownResult(k, v) = "already"

\* Both voters of a guild have voted in an election that is VOTING, and a
\* second candidate is on offer to each of them.
C1_Witness ==
    \E k \in Keys :
        /\ VotingOpen(k)
        /\ VoteOf(k, 2) # {} /\ VoteOf(k, 3) # {}
        /\ Cardinality(Offered(k)) >= 2

\* C2: locked voting.  A vote row is never changed by a later submission:
\* from one state to the next every row stays as it is, and no second row
\* for its voter appears, unless an /open_election for the position has
\* purged the votes of the position.
C2_LockedVoting ==
    [][\A r \in votes :
          \/ /\ r \in votes'
             /\ \A x \in votes' : (x.key = r.key /\ x.voter_id = r.voter_id) => x = r
          \/ /\ nSchedules' = nSchedules + 1
             /\ \A x \in votes' : x.key # r.key]_vars

\* A voter has a row for one candidate while another candidate is on offer.
C2_Witness ==
    \E r \in votes : \E c \in Offered(r.key) :
        /\ c # r.candidate_id
        /\ has_voter_role(r.voter_id, r.key[1])

\* C3: a vote row is added only in a step that starts with the election in
\* VOTING; for an absent, SCHEDULED or CLOSED election the vote set of the
\* position is left as it was.
C3_RecordedOnlyWhileVoting ==
    [][\A k \in Keys : (\E r \in votes' \ votes : r.key = k) => VotingOpen(k)]_vars

(* ---------------------------- the lifecycle --------------------------- *)

\* C4: CLOSED is terminal within a cycle.  From a state where the election
\* is CLOSED every step leaves it CLOSED, unless the step is an accepted
\* /open_election.
C4_ClosedIsTerminal ==
    [][\A k \in DOMAIN elections :
          elections[k].status = "CLOSED"
             => (elections'[k].status = "CLOSED" \/ nSchedules' = nSchedules + 1)]_vars

\* C5: in every reachable state an election that is VOTING has a stored
\* start_at that has arrived.
C5_VotingOnlyWhenDue ==
    \A k \in DOMAIN elections :
        elections[k].status = "VOTING"
           => (ParseOk(elections[k].start_at) /\ elections[k].start_at <= now)

(* ------------------------------ the sweep ----------------------------- *)

\* C6: Promote is idempotent.  A sweep never sends a second voting message
\* for an election it has promoted, and a sweep that begins right after a
\* sweep has run to its end, with nothing in between and so with the same
\* clock, changes no election and no message and sends nothing.
C6_PromoteIdempotent ==
    /\ [](schedPc = "sending" => schedCur.key \notin sweepPromoted)
    /\ [][(justSwept /\ (justSwept' \/ schedPc' = "sending"))
             => /\ elections' = elections
                /\ voteMsgs' = voteMsgs
                /\ schedPc' = "idle"
                /\ sweepPromoted' = {}]_vars

\* A sweep has just run to its end and has promoted an election, which is
\* therefore due and resolvable when the next sweep begins.
C6_Witness ==
    /\ justSwept
    /\ schedRunning
    /\ \E k \in sweepPromoted :
          /\ elections[k].status = "VOTING"
          /\ elections[k].start_at <= now
          /\ ElectionsChannelOk(k[1])

\* The election is SCHEDULED, its start has arrived and its guild, settings
\* and elections channel are found.
Due(k) ==
    /\ HasRow(k)
    /\ elections[k].status = "SCHEDULED"
    /\ Postable([key |-> k, start_at |-> elections[k].start_at], now)

\* C7: liveness of promotion.  With the scheduler running and firing when it
\* can, an election that is due does not stay due: it becomes VOTING, or it
\* is closed or scheduled anew first.
C7_PromotionLiveness ==
    \A k \in Keys : (schedRunning /\ Due(k)) ~> ~Due(k)

\* The clock and the rows the loop goes through in the step that starts here.
SweepClock == IF schedPc = "idle" THEN now ELSE schedNow

\* C8: per-item isolation.  Every row a sweep passes over without a send is a
\* row that is not due or whose guild, settings or channel is not found, and
\* the step leaves that election as it was; so every due and resolvable row
\* of the sweep reaches its send.  What a sweep that ran to its end promoted
\* is VOTING.
C8_PerItemIsolation ==
    /\ [](justSwept => \A k \in sweepPromoted : elections[k].status = "VOTING")
    /\ [][\A r \in (IF schedPc = "idle" THEN sweepPassed' ELSE sweepPassed' \ sweepPassed) :
             /\ ~Postable(r, SweepClock)
             /\ elections'[r.key] = elections[r.key]]_vars

\* A sweep has run to its end; it passed over a due election whose elections
\* channel is gone, which is still SCHEDULED, and promoted another one.
C8_Witness ==
    /\ justSwept
    /\ sweepPromoted # {}
    /\ \E r \in sweepPassed :
          /\ r.start_at <= now
          /\ ~ElectionsChannelOk(r.key[1])
          /\ elections[r.key].status = "SCHEDULED"
          /\ elections[r.key].start_at = r.start_at

\* The step in which the awaited send raises: the sweep leaves its row and no
\* message has been posted.
SendFailedStep ==
    /\ schedPc = "sending"
    /\ voteMsgs' = voteMsgs
    /\ <<schedPc, schedQueue, schedCur>>' # <<schedPc, schedQueue, schedCur>>

\* C9: a failed send is scoped to its election.  After the step the scheduler
\* is still running, and the sweep is at the send of the next due and
\* resolvable row of its queue, if there is one.
C9_SendFailureIsScoped ==
    [][SendFailedStep
          => /\ schedRunning'
             /\ LET rest == SkipTo(schedQueue, schedNow) IN
                rest # <<>> => (schedPc' = "sending" /\ schedCur'.key = Head(rest).key)]_vars

\* C10: the status write is committed before the publish is attempted.  While
\* the scheduler awaits the send of an election's voting message the
\* election is VOTING already.
C10_CommitBeforePublish ==
    schedPc = "sending" => VotingOpen(schedCur.key)

(* ---------------------------- nominations ----------------------------- *)

NominationsOf(k) == {n \in nominations : n.key = k}

\* C11: nominations close when voting opens.  From a state where the
\* election is VOTING, or its stored start_at has arrived, no step adds a
\* nomination row for the position.
C11_NominationsCloseAtStart ==
    [][\A k \in DOMAIN elections :
          (\/ elections[k].status = "VOTING"
           \/ (ParseOk(elections[k].start_at) /\ elections[k].start_at <= now))
             => {n \in nominations' : n.key = k} \subseteq NominationsOf(k)]_vars

\* C12: from a state where /close_election has set the election to CLOSED no
\* step inserts or changes a nomination row of the position.
C12_NoNominationWhenClosed ==
    [][\A k \in DOMAIN elections :
          elections[k].status = "CLOSED"
             => \A n \in nominations' : n.key = k => n \in nominations]_vars

(* -------------------------- /close_election --------------------------- *)

\* C13: a Close on an election that is CLOSED is not an error and answers
\* with the election result, the one the original Close computed.
C13_CloseAgainReturnsResult ==
    \A k \in DOMAIN elections : \A a \in Members(k[1]) :
        (elections[k].status = "CLOSED" /\ is_admin(a, k[1]))
           => \A r \in CloseReplies(k[1], k[2], a) :
                 /\ r.answer = "AlreadyClosed"
                 /\ "result" \in DOMAIN r

(* --------------------------- /open_election --------------------------- *)

\* C14: after every accepted /open_election for (guild, position) the votes
\* of the position are gone, and its nominations are gone if clear_nominees
\* was given and are what they were before the command otherwise.
C14_ScheduleClearsVotes ==
    [][lastOpen' # NoOpen
          => LET k == lastOpen'.key IN
             /\ \A r \in votes' : r.key # k
             /\ {n \in nominations' : n.key = k}
                   = IF lastOpen'.clear THEN {} ELSE NominationsOf(k)]_vars

\* An /open_election without clear_nominees was just accepted for a position
\* that has a nomination, after votes had been recorded in the guild.
C14_Witness ==
    /\ lastOpen # NoOpen
    /\ ~lastOpen.clear
    /\ NominationsOf(lastOpen.key) # {}
    /\ \E pn \in panels : pn.key = lastOpen.key
    /\ nSchedules = 2

\* C15: an accepted /open_election for (guild, position) leaves the election
\* row, the nominations and the votes of every other position and guild, and
\* all motions and motion votes, as they were.
C15_ScheduleFrame ==
    [][lastOpen' # NoOpen
          => LET k == lastOpen'.key IN
             /\ \A x \in DOMAIN elections : x # k => elections'[x] = elections[x]
             /\ DOMAIN elections' \subseteq DOMAIN elections \cup {k}
             /\ {n \in nominations' : n.key # k} = {n \in nominations : n.key # k}
             /\ {r \in votes' : r.key # k} = {r \in votes : r.key # k}
             /\ motions' = motions
             /\ motion_votes' = motion_votes]_vars

\* An /open_election was just accepted while another position of the same
\* guild has an election with a nomination and a vote.
C15_Witness ==
    /\ lastOpen # NoOpen
    /\ \E k \in DOMAIN elections :
          /\ k # lastOpen.key
          /\ k[1] = lastOpen.key[1]
          /\ NominationsOf(k) # {}
          /\ \E r \in votes : r.key = k

(* ------------------------- the election result ------------------------ *)

\* /close_election on every vote set of up to MaxVoters voters and three
\* candidates: guild 1 is set up and its election is VOTING.
TallyVoters == 1..MaxVoters
TallyCandidates == {7, 8, 9}

TallyInit ==
    /\ members = [g \in Guilds |-> IF g = 1 THEN {1, 2, 3} ELSE {}]
    /\ positions = {"PM"}
    /\ motionsOn = FALSE
    /\ guild_settings = Put(<<>>, 1, [elections_channel |-> "ok", nominees_channel |-> "ok",
                                      parliament_channel |-> "ok"])
    /\ elections = Put(<<>>, <<1, "PM">>,
                       [status |-> "VOTING", start_at |-> 0, is_closed |-> 0,
                        nominee_message_id |-> 1, vote_message_id |-> 1])
    /\ nominations = {[key |-> <<1, "PM">>, user_id |-> c, display_name |-> "Bob"] :
                         c \in TallyCandidates}
    /\ \E f \in [TallyVoters -> TallyCandidates \cup {0}] :
          votes = {[key |-> <<1, "PM">>, voter_id |-> v, candidate_id |-> f[v]] :
                      v \in {x \in TallyVoters : f[x] # 0}}
    /\ voteMsgs = [k \in Keys |-> IF k = <<1, "PM">>
                                 THEN <<[cands |-> TallyCandidates, live |-> TRUE]>>
                                 ELSE <<>>]
    /\ panels = {}
    /\ now = 0
    /\ schedRunning = TRUE
    /\ schedPc = "idle"
    /\ schedNow = 0
    /\ schedQueue = <<>>
    /\ schedCur = NoCur
    /\ nSchedules = 1
    /\ motions = <<>>
    /\ motion_votes = <<>>
    /\ rollcall = <<>>
    /\ opening = {}
    /\ casting = {}
    /\ lastOpen = NoOpen
    /\ sweepPromoted = {}
    /\ sweepPassed = {}
    /\ quietClean = FALSE
    /\ justSwept = FALSE

TallyNext ==
    \E a \in Members(1) :
       /\ CloseElection(1, "PM", a, TRUE)
       /\ Observed
       /\ lastOpen' = NoOpen

TallySpec == TallyInit /\ [][TallyNext]_vars

CountOf(k, c) == Cardinality({r \in votes : r.key = k /\ r.candidate_id = c})

Voted(k) == {r.candidate_id : r \in {x \in votes : x.key = k}}

TopCandidates(k) == {c \in Voted(k) : \A d \in Voted(k) : CountOf(k, d) <= CountOf(k, c)}

\* C16: for every vote set and every order the rows can come in, the result
\* of /close_election names as winner a candidate with the maximum count,
\* reports a tie exactly when two candidates or more share that count,
\* reports no winner and no tie for the empty vote set, and its total is the
\* number of vote rows.
C16_ElectionResult ==
    \A k \in DOMAIN elections : \A q \in VoteRows(k) :
        LET r == ElectionResult(q) IN
        /\ r.total_votes = Cardinality({x \in votes : x.key = k})
        /\ (Voted(k) = {}) => (r.winner_id = 0 /\ ~r.is_tie)
        /\ (Voted(k) # {}) =>
              /\ r.winner_id \in TopCandidates(k)
              /\ r.winner_votes = CountOf(k, r.winner_id)
              /\ r.is_tie = (Cardinality(TopCandidates(k)) >= 2)

\* An election was closed with one candidate ahead of another.
C16_Witness ==
    \E k \in DOMAIN elections :
        /\ elections[k].status = "CLOSED"
        /\ \E c, d \in Voted(k) : CountOf(k, c) > CountOf(k, d)

(* ------------------------------- motions ------------------------------ *)

\* The voters of the motion who chose c.
ChoseSet(g, m, c) ==
    {motion_votes[i].voter_id :
        i \in {j \in 1..Len(motion_votes) :
                  motion_votes[j].key = <<g, m>> /\ motion_votes[j].choice = c}}

Outcome(y, n) == IF y > n THEN "PASSED" ELSE IF n > y THEN "FAILED" ELSE "TIED"

Range(q) == {q[i] : i \in 1..Len(q)}

\* C17: for every set of motion votes the roll-call tally is a defined result
\* that holds the yes, no and abstain voters and the outcome PASSED, FAILED
\* or TIED of the yes and no counts alone.
C17_RollCallTally ==
    \A key \in DOMAIN motions :
        LET t == tally_motion(key[1], key[2]) IN
        /\ t # None
        /\ DOMAIN t = {"yes", "no", "abstain", "result"}
        /\ Range(t.yes) = ChoseSet(key[1], key[2], "yes")
        /\ Range(t.no) = ChoseSet(key[1], key[2], "no")
        /\ Range(t.abstain) = ChoseSet(key[1], key[2], "abstain")
        /\ t.result = Outcome(Cardinality(ChoseSet(key[1], key[2], "yes")),
                              Cardinality(ChoseSet(key[1], key[2], "no")))

MotionStatus(key) == motions[key].status

C19_OneMotionVote ==
    /\ [](\A key \in DOMAIN motions : \A v \in Users :
            /\ Cardinality(MotionVoteOf(key[1], key[2], v)) <= 1
            /\ (MotionVoteOf(key[1], key[2], v) # {} /\ MotionStatus(key) = "VOTING"
                   /\ has_parliament_role(v, key[1]))
                  => CastResult(key[1], key[2], v) = "AlreadyVoted")
    /\ [][/\ Len(motion_votes') >= Len(motion_votes)
          /\ \A i \in 1..Len(motion_votes) : motion_votes'[i] = motion_votes[i]]_vars

\* Both members of parliament have voted on a motion that is VOTING.
C19_Witness ==
    \E key \in DOMAIN motions :
        /\ MotionStatus(key) = "VOTING"
        /\ MotionVoteOf(key[1], key[2], 5) # {}
        /\ MotionVoteOf(key[1], key[2], 6) # {}

\* C20: a motion vote row is written only in a step that starts with the
\* motion in VOTING: no row is written for a motion that is absent, DRAFT or
\* CLOSED.
C20_MotionVoteOnlyWhileVoting ==
    [][\A i \in (Len(motion_votes) + 1)..Len(motion_votes') :
          LET key == motion_votes'[i].key IN
          key \in DOMAIN motions /\ MotionStatus(key) = "VOTING"]_vars

\* A motion that has a vote is CLOSED.
C20_Witness ==
    \E key \in DOMAIN motions :
        /\ MotionStatus(key) = "CLOSED"
        /\ \E i \in 1..Len(motion_votes) : motion_votes[i].key = key

(* ------------------------------ privacy ------------------------------- *)

\* C21: election privacy.  What /close_election and the voting dropdown send
\* to a channel is the same for every choice of candidates by the voters who
\* have voted; a message that holds vote counts is the DM to the admin who
\* closed the election; and a step changes the voting messages and the
\* panels only by a new voting message with the nominees the sweep read, a
\* voting message closed by /close_election, or a new panel of the nominees.
C21_ElectionPrivacy ==
    /\ [](\A g \in Guilds : \A p \in positions : \A a \in Members(g) : \A ok \in BOOLEAN :
            /\ \A V \in Relabelings :
                  PublicPart(ClosePublished(V, g, p, a, ok))
                     = PublicPart(ClosePublished(votes, g, p, a, ok))
            /\ \A m \in ClosePublished(votes, g, p, a, ok) :
                  m.counts # {} => /\ m.surface = "dm"
                                   /\ m.to = a
                                   /\ CloseResult(g, p, a) = "Closed"
            /\ \A c \in Nominators :
                  PublicPart(VoteSelectPublished(<<g, p>>, a, c)) = {})
    /\ [][/\ \A k \in Keys :
               \/ voteMsgs'[k] = voteMsgs[k]
               \/ voteMsgs'[k] = Append(voteMsgs[k], [cands |-> schedCur.cands, live |-> TRUE])
               \/ /\ elections'[k].status = "CLOSED"
                  /\ \E i \in 1..Len(voteMsgs[k]) :
                        voteMsgs'[k] = [voteMsgs[k] EXCEPT ![i].live = FALSE]
          /\ \/ panels' = panels
             \/ \E k \in Keys :
                   panels' = panels \cup {[key |-> k, cands |-> {n.user_id : n \in {x \in nominations' : x.key = k}}]}]_vars

\* An admin can close an election that is VOTING, has a voting message in
\* its channel and a vote, with a second candidate the voter could have
\* chosen, after an earlier voting message of the position was closed.
C21_Witness ==
    \E k \in DOMAIN elections :
        /\ VotingOpen(k)
        /\ elections[k].vote_message_id # 0
        /\ ElectionsChannelOk(k[1])
        /\ \E r \in votes : r.key = k
        /\ Cardinality(Relabelings) >= 2
        /\ \E i \in 1..Len(voteMsgs[k]) : ~voteMsgs[k][i].live
        /\ \E a \in Members(k[1]) : CloseResult(k[1], k[2], a) = "Closed"

(* ------------------------- who may do what ---------------------------- *)

\* C22: /open_election, /close_election, /motion_create, /motion_open and
\* /motion_close by a member who is not an admin, and /open_election in a
\* guild that has no settings or no nominees channel, are turned down, and
\* the step leaves every election, nomination, vote, motion and motion vote
\* row as it was: a step that changes a row is no step of such a command.
C22_AdminOnly ==
    /\ [](\A g \in Guilds : \A a \in Members(g) :
            /\ ~is_admin(a, g) =>
                  /\ OpenElectionResult(g, a) \in {"NotConfigured", "Unauthorized"}
                  /\ \A p \in positions : CloseResult(g, p, a) \in {"NotConfigured", "Unauthorized"}
                  /\ \A m \in MotionIds : /\ MotionOpenResult(g, m, a) = "AdminsOnly"
                                          /\ MotionCloseResult(g, m, a) = "AdminsOnly"
            /\ ~Configured(g) => OpenElectionResult(g, a) = "NotConfigured"
            /\ (is_admin(a, g) /\ Configured(g) /\ ~NomineesChannelOk(g))
                  => OpenElectionResult(g, a) = "NomineesChannelNotFound")
    /\ [][\/ UNCHANGED <<elections, nominations, votes, motions, motion_votes>>
          \/ \A g \in Guilds : \A a \in Members(g) :
                /\ (~is_admin(a, g) \/ ~NomineesChannelOk(g)) =>
                      \A p \in positions, t \in StartTimes, c \in BOOLEAN :
                         ~OpenElection(g, p, a, t, c, TRUE)
                /\ ~is_admin(a, g) =>
                      /\ \A p \in positions : ~CloseElection(g, p, a, TRUE)
                      /\ ~MotionCreate(g, a)
                      /\ \A m \in MotionIds :
                            /\ \A d \in Durations : ~MotionOpen(g, m, a, d)
                            /\ ~MotionClose(g, m, a)]_vars

\* A member who is no admin is in a guild that has an election with a
\* nomination and a vote, and the nominees channel of another guild, which
\* has an admin, is gone.
C22_Witness ==
    /\ \E k \in DOMAIN elections :
          /\ NominationsOf(k) # {}
          /\ \E r \in votes : r.key = k
          /\ \E a \in Members(k[1]) : ~is_admin(a, k[1])
    /\ \E g \in Guilds :
          /\ Configured(g) /\ ~NomineesChannelOk(g)
          /\ \E a \in Members(g) : is_admin(a, g)

C25_CloseTalliesStoredVotes ==
    /\ [](\A k \in DOMAIN elections : \A a \in Members(k[1]) :
            (is_admin(a, k[1]) /\ Configured(k[1])
                /\ elections[k].status \in {"SCHEDULED", "VOTING"})
               => CloseResult(k[1], k[2], a) = "Closed")
    /\ [][\/ elections' = elections
          \/ \A g \in Guilds : \A p \in positions : \A a \in Members(g) :
                (CloseElection(g, p, a, TRUE) /\ CloseResult(g, p, a) = "Closed") =>
                   /\ elections'[<<g, p>>].status = "CLOSED"
                   /\ {r.result : r \in CloseReplies(g, p, a)}
                         = {ElectionResult(q) : q \in VoteRowsIn(votes', <<g, p>>)}]_vars

\* An election with the votes of two voters is CLOSED and its voting message
\* has lost its dropdown.
C25_Witness ==
    \E k \in DOMAIN elections :
        /\ elections[k].status = "CLOSED"
        /\ VoteOf(k, 2) # {} /\ VoteOf(k, 3) # {}
        /\ \E i \in 1..Len(voteMsgs[k]) : ~voteMsgs[k][i].live

\* C26: of two /close_election commands for an election that is not CLOSED,
\* run one after the other in either order with no other step between them,
\* the first sets the election to CLOSED and sends the results, and the
\* second finds it CLOSED: it changes nothing and sends no results.  The
\* command has no await between its SELECT and its UPDATE, so the two cannot
\* interleave in any other way.
C26_OneCloseWins ==
    /\ [](\A k \in DOMAIN elections : \A a \in Members(k[1]) :
            (elections[k].status = "CLOSED" /\ is_admin(a, k[1]) /\ Configured(k[1]))
               => \A r \in CloseReplies(k[1], k[2], a) :
                     r.answer = "AlreadyClosed" /\ "result" \notin DOMAIN r)
    /\ [][\/ elections' = elections
          \/ \A g \in Guilds : \A p \in positions : \A a \in Members(g) :
                (CloseElection(g, p, a, TRUE) /\ CloseResult(g, p, a) = "Closed") =>
                   /\ elections[<<g, p>>].status # "CLOSED"
                   /\ elections'[<<g, p>>].status = "CLOSED"
                   /\ \A b \in Members(g) :
                         is_admin(b, g) => CloseResult(g, p, b)' = "AlreadyClosed"]_vars

\* An election is CLOSED and an admin of its guild can run /close_election
\* on it again.
C26_Witness ==
    \E k \in DOMAIN elections : \E a \in Members(k[1]) :
        /\ elections[k].status = "CLOSED"
        /\ CloseResult(k[1], k[2], a) = "AlreadyClosed"
        /\ \E r \in votes : r.key = k

(* ------------------------- absent rows -------------------------------- *)

\* C27: /close_election for a position that has no election row, and
\* /motion_open and /motion_close for a motion number that has no row, are
\* answered as not found, and the step makes no row and changes none.
C27_NotFoundCreatesNothing ==
    /\ [](\A g \in Guilds : \A a \in Members(g) :
            /\ \A p \in positions :
                  (is_admin(a, g) /\ Configured(g) /\ ~HasRow(<<g, p>>))
                     => CloseResult(g, p, a) = "NotFound"
            /\ \A m \in MotionIds :
                  (is_admin(a, g) /\ ~HasMotion(g, m))
                     => /\ Configured(g) => MotionOpenResult(g, m, a) = "NotFound"
                        /\ MotionCloseResult(g, m, a) = "NotFound")
    /\ [][\/ UNCHANGED <<elections, nominations, votes, motions, motion_votes>>
          \/ \A g \in Guilds : \A a \in Members(g) :
                /\ \A p \in positions : ~HasRow(<<g, p>>) => ~CloseElection(g, p, a, TRUE)
                /\ \A m \in MotionIds :
                      ~HasMotion(g, m) =>
                         /\ \A d \in Durations : ~MotionOpen(g, m, a, d)
                         /\ ~MotionClose(g, m, a)]_vars

\* An admin of a guild that is set up and has a motion can name a position
\* that has no election and a motion number that has no motion.
C27_Witness ==
    \E g \in Guilds :
        /\ Configured(g)
        /\ \E a \in Members(g) : is_admin(a, g)
        /\ \E p \in positions : ~HasRow(<<g, p>>)
        /\ \E m \in MotionIds : HasMotion(g, m)
        /\ \E m \in MotionIds : ~HasMotion(g, m)

(* ------------------------------ /nominate ----------------------------- *)

\* C28: /nominate for a (guild, position) that has no election row is turned
\* down, and the step makes neither an election row nor a nomination row.
C28_NominateNeedsElection ==
    [][\/ elections' = elections /\ nominations' = nominations
       \/ \A g \in Guilds : \A p \in positions : \A u \in Nominators : \A n \in NamesOf(u) :
             ~HasRow(<<g, p>>) => ~Nominate(g, p, u, n)]_vars

\* C29: /nominate is an upsert on (guild, position, user): the command of a
\* member who has a nomination row for the position is accepted, and after
\* every /nominate in a guild that is set up there is one row for the key and
\* its display_name is the name the command was given.
C29_NominateUpserts ==
    /\ [](\A n \in nominations :
            Configured(n.key[1]) => NominateResult(n.key[1], n.key[2], n.user_id) = "Nominated")
    /\ [][\A g \in Guilds : \A p \in positions : \A u \in Nominators : \A n \in NamesOf(u) :
             (Nominate(g, p, u, n) /\ Configured(g)) =>
                {x \in nominations' : x.key = <<g, p>> /\ x.user_id = u}
                   = {[key |-> <<g, p>>, user_id |-> u, display_name |-> n]}]_vars

(* --------------------------- the result lines ------------------------- *)

\* name_by_id.get(cid, f"Unknown Candidate ({cid})"): the display_name of the
\* nomination row of the candidate, which the key of the table makes unique.
\* The number in the label of an unknown candidate is its candidate_id.
Display(k, c) ==
    IF c \in NomineesOf(k)
    THEN (CHOOSE n \in NominationsOf(k) : n.user_id = c).display_name
    ELSE "Unknown Candidate"

\* The place of a label in the ascending order of the labels.
LabelRank(label) ==
    CASE label = "Ann" -> 1
      [] label = "Bob" -> 2
      [] label = "Unknown Candidate" -> 3
      [] label = "Zed" -> 4

\* The label of candidate c is not after the label of candidate d.
LabelNotAfter(k, c, d) ==
    \/ LabelRank(Display(k, c)) < LabelRank(Display(k, d))
    \/ LabelRank(Display(k, c)) = LabelRank(Display(k, d)) /\ c <= d

\* results_lines: one line for every row of vote_rows, in their order.
ResultsLines(k, q) ==
    [i \in 1..Len(q) |-> [display |-> Display(k, q[i].candidate_id), votes |-> q[i].votes]]

\* C30: the result lines of /close_election come in descending order of the
\* counts and, among equal counts, in ascending order of the display labels,
\* so the stored votes and labels fix the lines and the top candidate named.
C30_ResultOrder ==
    \A k \in DOMAIN elections :
        /\ \A q \in VoteRows(k) : \A i, j \in 1..Len(q) :
              i < j => \/ q[i].votes > q[j].votes
                       \/ /\ q[i].votes = q[j].votes
                          /\ LabelNotAfter(k, q[i].candidate_id, q[j].candidate_id)
        /\ Cardinality({ResultsLines(k, q) : q \in VoteRows(k)}) = 1

(* ------------------------ the roll-call message ------------------------ *)

\* The roll-call message of the motion names exactly the voters of its rows.
RollCallCurrent(key) ==
    \A c \in Choices : Range(rollcall[key][c]) = ChoseSet(key[1], key[2], c)

CastsInProgress(key) == {c \in casting : <<c[1], c[2]>> = key}

\* C31: a cast is answered only after the roll-call message was rebuilt with
\* its vote, and whenever no cast of a motion is in progress the roll-call
\* message of the motion names exactly the voters of its stored votes.
C31_RollCallRepublished ==
    /\ [](\A key \in DOMAIN rollcall :
             CastsInProgress(key) = {} => RollCallCurrent(key))
    /\ [][\A c \in casting \ casting' :
             <<c[1], c[2]>> \in DOMAIN rollcall' =>
                 c[3] \in UNION {Range(rollcall'[<<c[1], c[2]>>][x]) : x \in Choices}]_vars

\* The place of the voter's row among the rows of motion_votes.
CastOrder(key, v) ==
    CHOOSE i \in 1..Len(motion_votes) :
        motion_votes[i].key = key /\ motion_votes[i].voter_id = v

\* No voter of the list stands after one whose vote was accepted later.
InCastOrder(key, list) ==
    \A i, j \in 1..Len(list) : i < j => CastOrder(key, list[i]) < CastOrder(key, list[j])

C33_VotingHasRollCall ==
    /\ [](\A key \in DOMAIN motions :
             motions[key].status = "VOTING" /\ key \notin opening
                 => motions[key].message_id # 0)
    /\ [][\A i \in 1..Len(motion_votes') :
             i > Len(motion_votes) => motions[motion_votes'[i].key].message_id # 0]_vars

\* C34: a /motion_open goes on to post a roll-call message only in the step
\* that takes the motion from DRAFT to VOTING, no motion returns to DRAFT,
\* and a roll-call message is stored only for a motion that has none and
\* only by the command that opened it: a motion gets at most one.
C34_OneRollCall ==
    /\ [](\A key \in opening :
             /\ key \in DOMAIN motions
             /\ motions[key].status # "DRAFT"
             /\ motions[key].message_id = 0)
    /\ [][\A key \in DOMAIN motions :
             /\ key \in opening' \ opening
                   => motions[key].status = "DRAFT" /\ motions'[key].status = "VOTING"
             /\ motions[key].status # "DRAFT" => motions'[key].status # "DRAFT"
             /\ motions[key].status = "DRAFT" /\ motions'[key].status = "VOTING"
                   => \E a \in Members(key[1]), d \in Durations : MotionOpen(key[1], key[2], a, d)
             /\ motions'[key].message_id # motions[key].message_id
                   => /\ motions[key].message_id = 0
                      /\ MotionOpenSent(key[1], key[2])]_vars

\* The roll-call message of a motion is posted, and a second /motion_open of
\* the motion would find it VOTING.
C34_Witness ==
    \E key \in DOMAIN rollcall : motions[key].status = "VOTING" /\ motions[key].message_id # 0

(* ----------------- the motion commands on their own -------------------- *)

\* Two guilds that are set up, each with the administrator and one member of
\* parliament, and no motion yet.
MotionInit ==
    /\ members = [g \in Guilds |-> IF g = 1 THEN {1, 5} ELSE {1, 6}]
    /\ positions = {}
    /\ motionsOn = TRUE
    /\ guild_settings = [g \in Guilds |-> [elections_channel |-> "ok",
                                           nominees_channel |-> "ok",
                                           parliament_channel |-> "ok"]]
    /\ elections = <<>>
    /\ nominations = {}
    /\ votes = {}
    /\ voteMsgs = [k \in Keys |-> <<>>]
    /\ panels = {}
    /\ now = 0
    /\ schedRunning = TRUE
    /\ schedPc = "idle"
    /\ schedNow = 0
    /\ schedQueue = <<>>
    /\ schedCur = NoCur
    /\ nSchedules = 0
    /\ motions = <<>>
    /\ motion_votes = <<>>
    /\ rollcall = <<>>
    /\ opening = {}
    /\ casting = {}
    /\ lastOpen = NoOpen
    /\ sweepPromoted = {}
    /\ sweepPassed = {}
    /\ quietClean = FALSE
    /\ justSwept = FALSE

MotionHandlers ==
    \/ \E g \in Guilds : \E a \in Members(g) : MotionCreateUpTo(g, a, MaxCreates)
    \/ \E key \in DOMAIN motions, d \in Durations :
          \E a \in Members(key[1]) : MotionOpen(key[1], key[2], a, d)
    \/ \E key \in opening : MotionOpenSent(key[1], key[2])
    \/ \E key \in DOMAIN motions :
          \E a \in Members(key[1]) : MotionClose(key[1], key[2], a)

MotionNext == MotionHandlers /\ Observed /\ lastOpen' = NoOpen

MotionSpec == MotionInit /\ [][MotionNext]_vars

\* The numbers of the motions that exist.
MotionNumbers == {key[2] : key \in DOMAIN motions}

\* C35: a /motion_create of an administrator adds one motion, under the
\* number it reports to its caller, and that number is greater than the
\* number of every motion created before, in whichever guild; the motions
\* that existed stay as they were.
C35_MotionIdsIncrease ==
    [][\A g \in Guilds : \A a \in Members(g) :
          is_admin(a, g) /\ MotionCreateUpTo(g, a, MaxCreates) =>
              /\ DOMAIN motions' \ DOMAIN motions = {<<g, NextMotionId>>}
              /\ \A n \in MotionNumbers : n < NextMotionId
              /\ \A key \in DOMAIN motions : motions'[key] = motions[key]]_vars

\* Motions were created in both guilds, one after the other.
C35_Witness ==
    /\ Cardinality(DOMAIN motions) = MaxCreates
    /\ \A g \in Guilds : \E key \in DOMAIN motions : key[1] = g

(* --------------------- votes and the voting message --------------------- *)

\* The election was promoted: its row names the voting message of the cycle.
Promoted(k) ==
    /\ HasRow(k)
    /\ elections[k].status \in {"VOTING", "CLOSED"}
    /\ elections[k].vote_message_id \in 1..Len(voteMsgs[k])

\* The candidates the voting message of the cycle was posted with.
FrozenCandidates(k) == voteMsgs[k][elections[k].vote_message_id].cands

\* C36: every vote of an election that was promoted names a candidate of the
\* voting message its promotion posted.
C36_VotesForFrozenCandidates ==
    \A r \in votes : Promoted(r.key) => r.candidate_id \in FrozenCandidates(r.key)

\* C37: every election row has one of the three statuses and a start time.
C37_RowsHaveStatusAndStart ==
    \A k \in DOMAIN elections :
        /\ elections[k].status \in {"SCHEDULED", "VOTING", "CLOSED"}
        /\ elections[k].start_at # NullStartAt

\* C38: an election that is SCHEDULED has no votes.
C38_ScheduledHasNoVotes ==
    \A k \in DOMAIN elections :
        elections[k].status = "SCHEDULED" => \A r \in votes : r.key # k

\* C39: an election whose promotion posted a voting message without
\* candidates has no votes.
C39_EmptyPromotionHasNoVotes ==
    \A k \in DOMAIN elections :
        Promoted(k) /\ FrozenCandidates(k) = {} => \A r \in votes : r.key # k

====
